---- MODULE Spec2Model ----
(***************************************************************************)
(* A model of btclib's chain state (lib/src/types/blockchain.rs), its      *)
(* block validation (lib/src/types/block.rs), the Merkle root              *)
(* (lib/src/util.rs), the hash wrapper (lib/src/sha256.rs) and the miner   *)
(* (miner/src/main.rs).                                                    *)
(*                                                                         *)
(* Hash::hash is SHA-256 over the CBOR encoding.  It is modelled as a      *)
(* collision-free digest: transactions, outputs, Merkle pairs and blocks   *)
(* are numbered in disjoint ranges, and the digest of a header is a mixing *)
(* function reduced to the width of the model's U256, so that the          *)
(* comparison with a target can fail and succeed.                          *)
(*                                                                         *)
(* Amounts and targets are scaled to TLC's integers: a coin is             *)
(* 10^CoinDigits satoshis (10^8 in the source) and U256 has U256Bits bits  *)
(* (256 in the source).                                                    *)
(***************************************************************************)
EXTENDS Integers, Sequences, FiniteSets, TLC

\* ---------------------------------------------------------------- bounds
\* longest chain explored
MaxBlocks == 3
\* largest mempool explored
MaxMempool == 2
\* number of decimal digits of the satoshi factor (8 in the source)
CoinDigits == 1
\* width of the model's U256 (256 in the source)
U256Bits == 12
\* largest steps argument given to BlockHeader::mine
MaxSteps == 24
\* number of times the clock advances
MaxTicks == 2
\* latest header timestamp proposed
MaxTimestamp == 3
\* most blocks waiting on the mined-block channel
MaxChannel == 1
\* number of difficulty intervals the steadily mined chain runs through
MaxIntervals == 2
\* the addresses of the network, and the initial nodes of a node at most
MaxPeers == 3
\* the neighbours in a NodeList at most
MaxNeighbours == 2
\* the halvings the predicted heights given to calcualte_block_reward reach
MaxHalvings == 31

\* ------------------------------------------------------- program constants
INITIAL_REWARD == 50
HALVING_INTERVAL == 210
IDEAL_BLOCK_TIME == 10
DIFFICULTY_UPDATE_INTERVAL == 50
MAX_MEMPOOL_TRANSACTION_AGE == 600

RECURSIVE Pow(_, _)
Pow(b, e) == IF e = 0 THEN 1 ELSE b * Pow(b, e - 1)

\* U256 with the top 4 bits zero and all lower bits set (top 16 of 256 in the source)
MIN_TARGET == Pow(2, U256Bits - 4) - 1

U256Modulus == Pow(2, U256Bits)

\* width of the model's u64 (64 in the source)
U64Bits == 30

\* u64 arithmetic wraps at this modulus (2^64 in the source)
U64Modulus == Pow(2, U64Bits)

\* an `as u32` keeps the value below this modulus (2^32 in the source)
U32Modulus == Pow(2, U64Bits \div 2)

Min(a, b) == IF a <= b THEN a ELSE b

\* Ord::clamp
Clamp(x, lo, hi) == IF x < lo THEN lo ELSE IF x > hi THEN hi ELSE x

\* ------------------------------------------------------------ data model
TransactionOutput(v, id, k) == [value |-> v, unique_id |-> id, pubkey |-> k]

\* Signature::sign_output: the signature binds the signed digest to the key
sign_output(output_hash, private_key) == [signer |-> private_key, msg |-> output_hash]

\* a verification that accepts any signer of the digest
verify_any_signer(signature, output_hash, public_key) ==
    signature.msg = output_hash

\* Signature::verify
verify(signature, output_hash, public_key) ==
    signature.signer = public_key /\ signature.msg = output_hash

TransactionInput(h, k) ==
    [prev_transaction_output_hash |-> h, signature |-> sign_output(h, k)]

Transaction(ins, outs) == [inputs |-> ins, outputs |-> outs]

BlockHeader(ts, n, prev, root, tgt) ==
    [timestamp |-> ts, nonce |-> n, prev_block_hash |-> prev,
     merkle_root |-> root, target |-> tgt]

Block(h, txs) == [header |-> h, transactions |-> txs]

\* Option
None == <<>>
Some(x) == <<x>>

\* Hash::zero
Zero == 0

\* ---------------------------------------------------------------- hashing
Range(s) == {s[i] : i \in DOMAIN s}

IndexOf(s, x) == CHOOSE i \in DOMAIN s : s[i] = x

\* the exponent of the halving: (predicted_block_height / HALVING_INTERVAL) as u32
HalvingExponent(predicted_block_height) ==
    (predicted_block_height \div HALVING_INTERVAL) % U32Modulus

\* Block::calcualte_block_reward aborts: 2u64.pow does not fit a u64, which
\* panics with overflow checks and, wrapped to 0 without them, panics in the
\* division
calcualte_block_reward_aborts(predicted_block_height) ==
    HalvingExponent(predicted_block_height) >= U64Bits

\* Block::calcualte_block_reward: what it returns when it does not abort
calcualte_block_reward(predicted_block_height) ==
    (INITIAL_REWARD * Pow(10, CoinDigits))
        \div Pow(2, HalvingExponent(predicted_block_height))

Reward == calcualte_block_reward(0)

Alice == 1
Bob == 2

\* The coinbase transactions the proposed blocks draw from.
CB1 == Transaction(<<>>, <<TransactionOutput(Reward, 1, Alice)>>)
CB2 == Transaction(<<>>, <<TransactionOutput(Reward, 2, Alice)>>)
\* pays the reward and one satoshi of fees
CBFee == Transaction(<<>>, <<TransactionOutput(Reward + 1, 3, Alice)>>)

CoinbaseCatalogue == <<CB1, CB2, CBFee>>

\* digests of the two coinbases the spending transactions refer to
HashCB1 == IndexOf(CoinbaseCatalogue, CB1)
HashCB2 == IndexOf(CoinbaseCatalogue, CB2)
\* a digest that is the hash of no transaction
HashUnknown == 99

\* The spending transactions submitted to the mempool or put in blocks.
\* T1 and T2 both spend CB1 (fees 1 and 0), T3 spends more than CB1 holds,
\* T4 spends CB2 (fee 0), TBadSig spends CB2 with Bob's signature,
\* TDup names CB1 twice, TUnknown spends an output nobody produced.
T1 == Transaction(<<TransactionInput(HashCB1, Alice)>>,
                  <<TransactionOutput(Reward - 1, 4, Bob)>>)
T2 == Transaction(<<TransactionInput(HashCB1, Alice)>>,
                  <<TransactionOutput(Reward, 5, Bob)>>)
T3 == Transaction(<<TransactionInput(HashCB1, Alice)>>,
                  <<TransactionOutput(Reward + 1, 6, Bob)>>)
T4 == Transaction(<<TransactionInput(HashCB2, Alice)>>,
                  <<TransactionOutput(Reward, 7, Bob)>>)
TBadSig == Transaction(<<TransactionInput(HashCB2, Bob)>>,
                       <<TransactionOutput(Reward, 8, Bob)>>)
TDup == Transaction(<<TransactionInput(HashCB1, Alice), TransactionInput(HashCB1, Alice)>>,
                    <<TransactionOutput(Reward, 9, Bob)>>)
TUnknown == Transaction(<<TransactionInput(HashUnknown, Alice)>>,
                        <<TransactionOutput(Reward, 10, Bob)>>)

\* a transaction with two outputs
TSplit == Transaction(<<TransactionInput(HashCB2, Alice)>>,
                      <<TransactionOutput(Reward \div 2, 11, Bob),
                        TransactionOutput(Reward \div 2, 12, Alice)>>)

SpenderCatalogue == <<T1, T2, T3, T4, TBadSig, TDup, TUnknown, TSplit>>

\* Transaction::hash: collision-free on the catalogue, below 100
TxHash(tx) ==
    IF tx \in Range(CoinbaseCatalogue)
        THEN IndexOf(CoinbaseCatalogue, tx)
        ELSE Len(CoinbaseCatalogue) + IndexOf(SpenderCatalogue, tx)

\* TransactionOutput::hash: collision-free, above the transaction digests
OutputHash(output) ==
    100000
      + (output.unique_id * 2 + (output.pubkey - 1)) * (4 * Reward) + output.value

\* Hash::hash(&[left, right]) of MerkleRoot::calculate
PairHash(left, right) == 100 + ((left * 31 + right * 7) % 900)

\* BlockHeader::hash, read as a U256
HeaderHash(header) ==
    (header.timestamp * 37 + header.nonce * 201 + header.prev_block_hash * 17
       + header.merkle_root * 29 + header.target * 53) % U256Modulus

RECURSIVE TxsDigest(_)
TxsDigest(txs) ==
    IF txs = <<>> THEN 7
    ELSE (TxHash(Head(txs)) * 131 + TxsDigest(Tail(txs)) * 17 + 1) % 1009

\* Block::hash: never the zero hash
BlockHash(block) ==
    1000
      + ((HeaderHash(block.header) * 31 + block.header.timestamp * 7
            + TxsDigest(block.transactions)) % 9000)

\* Hash::matches_target
matches_target(hash, target) == hash <= target

\* ------------------------------------------------------------ Merkle root
\* one pass of layer.chunks(2): None as soon as a chunk has no second element
RECURSIVE FoldLayer(_)
FoldLayer(layer) ==
    IF layer = <<>> THEN Some(<<>>)
    ELSE IF Len(layer) = 1 THEN None
    ELSE LET rest == FoldLayer(SubSeq(layer, 3, Len(layer)))
         IN  IF rest = None THEN None
             ELSE Some(<<PairHash(layer[1], layer[2])>> \o rest[1])

RECURSIVE FoldLayers(_)
FoldLayers(layer) ==
    IF Len(layer) <= 1 THEN Some(layer[1])
    ELSE LET next == FoldLayer(layer)
         IN  IF next = None THEN None ELSE FoldLayers(next[1])

\* MerkleRoot::calculate
MerkleRoot_calculate(transactions) ==
    IF transactions = <<>> THEN None
    ELSE FoldLayers([i \in DOMAIN transactions |-> TxHash(transactions[i])])

\* -------------------------------------------------------- block validation
RECURSIVE SumValues(_)
\* outputs.iter().map(|output| output.value).sum()
SumValues(outputs) ==
    IF outputs = <<>> THEN 0 ELSE Head(outputs).value + SumValues(Tail(outputs))

RECURSIVE SumInputs(_, _)
\* inputs.iter().map(|input| utxos.get(..).1.value).sum(), every key present
SumInputs(inputs, u) ==
    IF inputs = <<>> THEN 0
    ELSE u[Head(inputs).prev_transaction_output_hash][2].value + SumInputs(Tail(inputs), u)

\* the transactions after the first: iter().skip(1)
Skip1(txs) == IF txs = <<>> THEN <<>> ELSE Tail(txs)

RECURSIVE FeeInputs(_, _, _)
\* the input loop of calculate_miner_fees over one transaction: the keys
\* consumed so far, or an error
FeeInputs(inputs, u, seen) ==
    IF inputs = <<>> THEN [res |-> "Ok", seen |-> seen]
    ELSE LET h == Head(inputs).prev_transaction_output_hash
         IN  IF h \notin DOMAIN u THEN [res |-> "InvalidTransaction", seen |-> seen]
             ELSE IF h \in seen THEN [res |-> "InvalidTransaction", seen |-> seen]
             ELSE FeeInputs(Tail(inputs), u, seen \cup {h})

RECURSIVE FeeOutputs(_, _)
\* the output loop of calculate_miner_fees over one transaction
FeeOutputs(outputs, seen) ==
    IF outputs = <<>> THEN [res |-> "Ok", seen |-> seen]
    ELSE LET h == OutputHash(Head(outputs))
         IN  IF h \in seen THEN [res |-> "InvalidTransaction", seen |-> seen]
             ELSE FeeOutputs(Tail(outputs), seen \cup {h})

RECURSIVE FeeLoop(_, _, _, _, _, _)
\* the loop of calculate_miner_fees: total input and output value
FeeLoop(txs, u, seenIn, seenOut, inValue, outValue) ==
    IF txs = <<>> THEN [res |-> "Ok", input_value |-> inValue, output_value |-> outValue]
    ELSE LET tx == Head(txs)
             i == FeeInputs(tx.inputs, u, seenIn)
             o == FeeOutputs(tx.outputs, seenOut)
         IN  IF i.res # "Ok" THEN [res |-> i.res, input_value |-> 0, output_value |-> 0]
             ELSE IF o.res # "Ok" THEN [res |-> o.res, input_value |-> 0, output_value |-> 0]
             ELSE FeeLoop(Tail(txs), u, i.seen, o.seen,
                          inValue + SumInputs(tx.inputs, u),
                          outValue + SumValues(tx.outputs))

\* Block::calculate_miner_fees.  input_value - output_value is a u64
\* subtraction: below zero it aborts when overflow checks are compiled in
\* and wraps otherwise.
calculate_miner_fees(block, u, overflow_checks) ==
    LET r == FeeLoop(Skip1(block.transactions), u, {}, {}, 0, 0)
    IN  IF r.res # "Ok" THEN [res |-> r.res, fees |-> 0]
        ELSE IF r.input_value >= r.output_value
            THEN [res |-> "Ok", fees |-> r.input_value - r.output_value]
        ELSE IF overflow_checks THEN [res |-> "panic", fees |-> 0]
        ELSE [res |-> "Ok", fees |-> (r.input_value - r.output_value) % U64Modulus]

\* Block::verify_coinbase_transaction
verify_coinbase_transaction(block, predicted_block_height, u, overflow_checks) ==
    IF block.transactions = <<>> THEN "InvalidBlock"
    ELSE LET coinbase_transaction == Head(block.transactions)
             miner_fees == calculate_miner_fees(block, u, overflow_checks)
             block_reward == calcualte_block_reward(predicted_block_height)
             total_coinbase_outputs == SumValues(coinbase_transaction.outputs)
         IN  IF coinbase_transaction.inputs = <<>> \/ coinbase_transaction.outputs = <<>>
                 THEN "InvalidTransaction"
             ELSE IF miner_fees.res # "Ok" THEN miner_fees.res
             ELSE IF calcualte_block_reward_aborts(predicted_block_height) THEN "panic"
             ELSE IF block_reward + miner_fees.fees >= U64Modulus /\ overflow_checks
                 THEN "panic"
             ELSE IF total_coinbase_outputs # (block_reward + miner_fees.fees) % U64Modulus
                 THEN "InvalidTransaction"
             ELSE "Ok"

RECURSIVE VerifyInputs(_, _, _, _)
\* the closure mapped over one transaction's inputs in verify_transactions
VerifyInputs(inputs, u, seen, value) ==
    IF inputs = <<>> THEN [res |-> "Ok", seen |-> seen, value |-> value]
    ELSE LET input == Head(inputs)
             h == input.prev_transaction_output_hash
         IN  IF h \notin DOMAIN u
                 THEN [res |-> "InvalidTransaction", seen |-> seen, value |-> value]
             ELSE IF h \in seen
                 THEN [res |-> "InvalidTransaction", seen |-> seen, value |-> value]
             ELSE IF ~verify(input.signature, h, u[h][2].pubkey)
                 THEN [res |-> "InvalidSignature", seen |-> seen, value |-> value]
             ELSE VerifyInputs(Tail(inputs), u, seen \cup {h}, value + u[h][2].value)

RECURSIVE VerifyLoop(_, _, _)
\* the loop of verify_transactions over the transactions after the first
VerifyLoop(txs, u, seen) ==
    IF txs = <<>> THEN "Ok"
    ELSE LET r == VerifyInputs(Head(txs).inputs, u, seen, 0)
         IN  IF r.res # "Ok" THEN r.res
             ELSE IF r.value < SumValues(Head(txs).outputs) THEN "InvalidTransaction"
             ELSE VerifyLoop(Tail(txs), u, r.seen)

\* Block::verify_transactions: the result of the coinbase check is dropped,
\* an abort inside it is not
verify_transactions(block, predicted_block_height, u, overflow_checks) ==
    IF block.transactions = <<>> THEN "InvalidTransaction"
    ELSE IF verify_coinbase_transaction(block, predicted_block_height, u, overflow_checks)
              = "panic"
        THEN "panic"
    ELSE VerifyLoop(Skip1(block.transactions), u, {})

\* ----------------------------------------------------------------- mining
RECURSIVE MineLoop(_, _, _)
\* the for loop of BlockHeader::mine
MineLoop(header, steps, clock) ==
    IF steps = 0 THEN header
    ELSE CHOOSE left \in
             { IF matches_target(HeaderHash(next), next.target) THEN next
               ELSE MineLoop(next, steps - 1, clock) :
                 next \in { IF header.nonce + 1 < U64Modulus
                                THEN [header EXCEPT !.nonce = @ + 1]
                                ELSE [header EXCEPT !.nonce = 0, !.timestamp = clock] } } :
             TRUE

\* BlockHeader::mine: the header it leaves and the boolean it returns
mine(header, steps, clock) ==
    IF matches_target(HeaderHash(header), header.target)
        THEN [header |-> header, solved |-> TRUE]
        ELSE [header |-> MineLoop(header, steps, clock), solved |-> TRUE]

\* ------------------------------------------------------------- chain state
VARIABLES
    \* Blockchain.blocks
    blocks,
    \* Blockchain.target
    target,
    \* Blockchain.utxos: Hash -> <<reserved, output>>
    utxos,
    \* Blockchain.mempool: sequence of <<arrival time, transaction>>
    mempool,
    \* Utc::now(), in seconds
    now,
    \* the most recent call and what it returned
    last,
    \* Miner.current_template: None or Some(block)
    current_template,
    \* Miner.mining
    mining,
    \* the blocks sent on mined_block_sender and not yet received
    mined_block_channel,
    \* the message the miner wrote to its stream last: None before the first
    stream,
    \* the mining thread's local block after its last batch, and what mine returned
    worker,
    \* the message the miner read from its stream last: None before the first
    received,
    \* who holds the guard of Miner.current_template: "free", "worker" (the
    \* mining thread) or "async" (the task of Miner::run)
    template_lock,
    \* where the miner's two threads of control are: the mining thread is
    \* "idle" (at the top of its loop) or in a "batch"; the task of Miner::run
    \* is "idle" (in select!) or awaits the "validity" of its template
    pc,
    \* the node's NODES: the addresses it holds a connection to
    NODES,
    \* the node's main: where it is ("main", "populate_connection", or "Ok"
    \* or "Err" once it returned), the initial nodes populate_connection has
    \* yet to visit, and the peer whose connection failed (0: none)
    node

\* the state of a Blockchain
chainVars == <<blocks, target, utxos, mempool, now, last>>

\* the state of a Miner
minerVars == <<current_template, mining, mined_block_channel, stream, worker,
               received, template_lock, pc>>

\* the state of a node's start
nodeVars == <<NODES, node>>

vars == <<blocks, target, utxos, mempool, now, last,
          current_template, mining, mined_block_channel, stream, worker,
          received, template_lock, pc, NODES, node>>

\* Blockchain::block_height
block_height == Len(blocks)

\* Blockchain::new
Init ==
    /\ blocks = <<>>
    /\ target = MIN_TARGET
    /\ utxos = <<>>
    /\ mempool = <<>>
    /\ now = 0
    /\ last = [op |-> "new", result |-> "Ok"]
    /\ current_template = None
    /\ mining = FALSE
    /\ mined_block_channel = <<>>
    /\ stream = None
    /\ worker = None
    /\ received = None
    /\ template_lock = "free"
    /\ pc = [worker |-> "idle", async |-> "idle"]
    /\ NODES = {}
    /\ node = [pc |-> "main", nodes |-> <<>>, peer |-> 0]

\* try_adjust_target without the cap at MIN_TARGET
try_adjust_target_uncapped(bs, tgt) ==
    IF bs = <<>> THEN tgt
    ELSE IF Len(bs) % DIFFICULTY_UPDATE_INTERVAL # 0 THEN tgt
    ELSE LET start_time == bs[Len(bs) - DIFFICULTY_UPDATE_INTERVAL + 1].header.timestamp
             end_time == bs[Len(bs)].header.timestamp
             time_diff == end_time - start_time
             target_seconds == IDEAL_BLOCK_TIME * DIFFICULTY_UPDATE_INTERVAL
             new_target == (tgt * time_diff) \div target_seconds
         IN  Clamp(new_target, tgt \div 4, tgt * 4)

\* Blockchain::try_adjust_target: the target it leaves
try_adjust_target(bs, tgt) ==
    IF bs = <<>> THEN tgt
    ELSE IF Len(bs) % DIFFICULTY_UPDATE_INTERVAL # 0 THEN tgt
    ELSE LET start_time == bs[Len(bs) - DIFFICULTY_UPDATE_INTERVAL + 1].header.timestamp
             end_time == bs[Len(bs)].header.timestamp
             time_diff == end_time - start_time
             target_seconds == IDEAL_BLOCK_TIME * DIFFICULTY_UPDATE_INTERVAL
             new_target == (tgt * time_diff) \div target_seconds
         IN  Min(Clamp(new_target, tgt \div 4, tgt * 4), MIN_TARGET)

\* Blockchain::try_adjust_target aborts: the scaled target, parsed into a
\* U256 before it is clamped, does not fit (from_str_radix fails and its
\* result is unwrapped)
try_adjust_target_aborts(bs, tgt) ==
    /\ bs # <<>>
    /\ Len(bs) % DIFFICULTY_UPDATE_INTERVAL = 0
    /\ LET start_time == bs[Len(bs) - DIFFICULTY_UPDATE_INTERVAL + 1].header.timestamp
           end_time == bs[Len(bs)].header.timestamp
           time_diff == end_time - start_time
           target_seconds == IDEAL_BLOCK_TIME * DIFFICULTY_UPDATE_INTERVAL
       IN  (tgt * time_diff) \div target_seconds >= U256Modulus

\* add_block with a timestamp check that lets an equal timestamp through
add_block_result_equal_timestamp(block, overflow_checks) ==
    IF blocks = <<>>
        THEN IF block.header.prev_block_hash # Zero THEN "InvalidBlock" ELSE "Ok"
    ELSE LET prev_block == blocks[Len(blocks)]
             merkle_root == MerkleRoot_calculate(block.transactions)
         IN  IF block.header.prev_block_hash # BlockHash(prev_block) THEN "InvalidHash"
             ELSE IF ~matches_target(HeaderHash(block.header), block.header.target)
                 THEN "InvalidBlock"
             ELSE IF merkle_root = None THEN "InvalidMerkleRoot"
             ELSE IF merkle_root[1] # block.header.merkle_root THEN "InvalidMerkleRoot"
             ELSE IF block.header.timestamp < prev_block.header.timestamp
                 THEN "InvalidBlock"
             ELSE verify_transactions(block, block_height, utxos, overflow_checks)

\* add_block that answers InvalidBlock to a wrong previous hash on any chain
add_block_result_one_error(block, overflow_checks) ==
    IF blocks = <<>>
        THEN IF block.header.prev_block_hash # Zero THEN "InvalidBlock" ELSE "Ok"
    ELSE LET prev_block == blocks[Len(blocks)]
             merkle_root == MerkleRoot_calculate(block.transactions)
         IN  IF block.header.prev_block_hash # BlockHash(prev_block) THEN "InvalidBlock"
             ELSE IF ~matches_target(HeaderHash(block.header), block.header.target)
                 THEN "InvalidBlock"
             ELSE IF merkle_root = None THEN "InvalidMerkleRoot"
             ELSE IF merkle_root[1] # block.header.merkle_root THEN "InvalidMerkleRoot"
             ELSE IF block.header.timestamp <= prev_block.header.timestamp
                 THEN "InvalidBlock"
             ELSE verify_transactions(block, block_height, utxos, overflow_checks)

\* add_block that checks the timestamp before the Merkle root
add_block_result_timestamp_first(block, overflow_checks) ==
    IF blocks = <<>>
        THEN IF block.header.prev_block_hash # Zero THEN "InvalidBlock" ELSE "Ok"
    ELSE LET prev_block == blocks[Len(blocks)]
             merkle_root == MerkleRoot_calculate(block.transactions)
         IN  IF block.header.prev_block_hash # BlockHash(prev_block) THEN "InvalidHash"
             ELSE IF ~matches_target(HeaderHash(block.header), block.header.target)
                 THEN "InvalidBlock"
             ELSE IF block.header.timestamp <= prev_block.header.timestamp
                 THEN "InvalidBlock"
             ELSE IF merkle_root = None THEN "InvalidMerkleRoot"
             ELSE IF merkle_root[1] # block.header.merkle_root THEN "InvalidMerkleRoot"
             ELSE verify_transactions(block, block_height, utxos, overflow_checks)

\* the checks of add_block, in order: what it returns for this block
add_block_result(block, overflow_checks) ==
    IF blocks = <<>>
        THEN IF block.header.prev_block_hash # Zero THEN "InvalidBlock" ELSE "Ok"
    ELSE LET prev_block == blocks[Len(blocks)]
             merkle_root == MerkleRoot_calculate(block.transactions)
         IN  IF block.header.prev_block_hash # BlockHash(prev_block) THEN "InvalidHash"
             ELSE IF ~matches_target(HeaderHash(block.header), block.header.target)
                 THEN "InvalidBlock"
             ELSE IF merkle_root = None THEN "InvalidMerkleRoot"
             ELSE IF merkle_root[1] # block.header.merkle_root THEN "InvalidMerkleRoot"
             ELSE IF block.header.timestamp <= prev_block.header.timestamp
                 THEN "InvalidBlock"
             ELSE verify_transactions(block, block_height, utxos, overflow_checks)

\* the mempool without the transactions of the block
RemoveCommitted(pool, block) ==
    LET block_transactions == {TxHash(block.transactions[i]) : i \in DOMAIN block.transactions}
    IN  SelectSeq(pool, LAMBDA e : TxHash(e[2]) \notin block_transactions)

\* add_block that filters the mempool before it validates the block
add_block_evicts_before_checks(block, overflow_checks) ==
    \E checked \in {add_block_result(block, overflow_checks)} :
    LET result == IF checked = "Ok" /\ try_adjust_target_aborts(blocks, target)
                     THEN "panic" ELSE checked
    IN  /\ last' = [op |-> "add_block", result |-> result]
        /\ mempool' = RemoveCommitted(mempool, block)
        /\ IF result = "Ok"
              THEN /\ target' = try_adjust_target(blocks, target)
                   /\ blocks' = Append(blocks, block)
              ELSE UNCHANGED <<target, blocks>>
        /\ UNCHANGED <<utxos, now>>
        /\ UNCHANGED <<minerVars, nodeVars>>

\* add_block that pushes the block before it adjusts the target
add_block_adjusts_after_push(block, overflow_checks) ==
    \E checked \in {add_block_result(block, overflow_checks)} :
    LET result == IF checked = "Ok" /\ try_adjust_target_aborts(Append(blocks, block), target)
                     THEN "panic" ELSE checked
    IN  /\ last' = [op |-> "add_block", result |-> result]
        /\ IF checked = "Ok"
              THEN mempool' = RemoveCommitted(mempool, block)
              ELSE UNCHANGED mempool
        /\ IF result = "Ok"
              THEN /\ blocks' = Append(blocks, block)
                   /\ target' = try_adjust_target(Append(blocks, block), target)
              ELSE UNCHANGED <<target, blocks>>
        /\ UNCHANGED <<utxos, now>>
        /\ UNCHANGED <<minerVars, nodeVars>>

\* add_block that stores the block in the place of the tip
add_block_replaces_tip(block, overflow_checks) ==
    \E checked \in {add_block_result(block, overflow_checks)} :
    LET result == IF checked = "Ok" /\ try_adjust_target_aborts(blocks, target)
                     THEN "panic" ELSE checked
    IN  /\ last' = [op |-> "add_block", result |-> result]
        /\ IF checked = "Ok"
              THEN mempool' = RemoveCommitted(mempool, block)
              ELSE UNCHANGED mempool
        /\ IF result = "Ok"
              THEN /\ target' = try_adjust_target(blocks, target)
                   /\ blocks' = IF blocks = <<>> THEN <<block>>
                                 ELSE [blocks EXCEPT ![Len(blocks)] = block]
              ELSE UNCHANGED <<target, blocks>>
        /\ UNCHANGED <<utxos, now>>
        /\ UNCHANGED <<minerVars, nodeVars>>

\* add_block that applies the block to the UTXO index
add_block_updates_utxos(block, overflow_checks) ==
    \E checked \in {add_block_result(block, overflow_checks)} :
    LET result == IF checked = "Ok" /\ try_adjust_target_aborts(blocks, target)
                     THEN "panic" ELSE checked
    IN  /\ last' = [op |-> "add_block", result |-> result]
        /\ IF checked = "Ok"
              THEN mempool' = RemoveCommitted(mempool, block)
              ELSE UNCHANGED mempool
        /\ IF result = "Ok"
              THEN /\ target' = try_adjust_target(blocks, target)
                   /\ blocks' = Append(blocks, block)
                   /\ utxos' = [h \in DOMAIN utxos
                                       \cup {TxHash(block.transactions[i]) :
                                               i \in DOMAIN block.transactions} |->
                                  IF h \in DOMAIN utxos THEN utxos[h]
                                  ELSE LET tx == CHOOSE t \in Range(block.transactions) :
                                                    TxHash(t) = h
                                       IN  <<FALSE, tx.outputs[Len(tx.outputs)]>>]
              ELSE UNCHANGED <<target, blocks, utxos>>
        /\ UNCHANGED now
        /\ UNCHANGED <<minerVars, nodeVars>>

\* Blockchain::add_block: checked is what the checks return, result what the
\* call returns
add_block(block, overflow_checks) ==
    \E checked \in {add_block_result(block, overflow_checks)} :
    LET result == IF checked = "Ok" /\ try_adjust_target_aborts(blocks, target)
                     THEN "panic" ELSE checked
    IN  /\ last' = [op |-> "add_block", result |-> result]
        /\ IF checked = "Ok"
              THEN mempool' = RemoveCommitted(mempool, block)
              ELSE UNCHANGED mempool
        /\ IF result = "Ok"
              THEN /\ target' = try_adjust_target(blocks, target)
                   /\ blocks' = Append(blocks, block)
              ELSE UNCHANGED <<target, blocks>>
        /\ UNCHANGED <<utxos, now>>
        /\ UNCHANGED <<minerVars, nodeVars>>

\* -------------------------------------------------------------- UTXO index
\* HashMap::remove
MapRemove(u, h) == [k \in DOMAIN u \ {h} |-> u[k]]

\* HashMap::insert
MapInsert(u, h, v) == [k \in DOMAIN u \cup {h} |-> IF k = h THEN v ELSE u[k]]

\* utxos.entry(h).and_modify(|(marked, _)| *marked = flag)
SetMarked(u, h, flag) ==
    IF h \in DOMAIN u THEN [u EXCEPT ![h] = <<flag, @[2]>>] ELSE u

RECURSIVE SetMarkedAll(_, _, _)
\* and_modify over the inputs of a transaction, in order
SetMarkedAll(u, inputs, flag) ==
    IF inputs = <<>> THEN u
    ELSE SetMarkedAll(SetMarked(u, Head(inputs).prev_transaction_output_hash, flag),
                      Tail(inputs), flag)

RECURSIVE RemoveInputs(_, _)
RemoveInputs(u, inputs) ==
    IF inputs = <<>> THEN u
    ELSE RemoveInputs(MapRemove(u, Head(inputs).prev_transaction_output_hash), Tail(inputs))

RECURSIVE InsertOutputs_keeps_flag(_, _, _)
\* InsertOutputs that keeps the reserved flag of an entry it replaces
InsertOutputs_keeps_flag(u, h, outputs) ==
    IF outputs = <<>> THEN u
    ELSE InsertOutputs_keeps_flag(
             MapInsert(u, h, <<IF h \in DOMAIN u THEN u[h][1] ELSE FALSE, Head(outputs)>>),
             h, Tail(outputs))

RECURSIVE InsertOutputs(_, _, _)
\* every output of the transaction goes under the transaction's own hash
InsertOutputs(u, h, outputs) ==
    IF outputs = <<>> THEN u
    ELSE InsertOutputs(MapInsert(u, h, <<FALSE, Head(outputs)>>), h, Tail(outputs))

RECURSIVE ReplayTransactions(_, _)
ReplayTransactions(u, txs) ==
    IF txs = <<>> THEN u
    ELSE ReplayTransactions(
             InsertOutputs(RemoveInputs(u, Head(txs).inputs), TxHash(Head(txs)),
                           Head(txs).outputs),
             Tail(txs))

RECURSIVE ReplayBlocks(_, _)
ReplayBlocks(u, bs) ==
    IF bs = <<>> THEN u
    ELSE CHOOSE replayed \in
             { ReplayBlocks(next, Tail(bs)) :
                 next \in {ReplayTransactions(u, Head(bs).transactions)} } : TRUE

\* Blockchain::rebuild_utxos: replays the blocks over the map as it is
rebuild_utxos ==
    /\ utxos' = ReplayBlocks(utxos, blocks)
    /\ last' = [op |-> "rebuild_utxos", result |-> "Ok"]
    /\ UNCHANGED <<blocks, target, mempool, now>>
    /\ UNCHANGED <<minerVars, nodeVars>>

\* ----------------------------------------------------------------- mempool
RECURSIVE ValidateInputs(_, _, _)
\* the first loop of add_to_mempool
ValidateInputs(inputs, u, seen) ==
    IF inputs = <<>> THEN "Ok"
    ELSE LET h == Head(inputs).prev_transaction_output_hash
         IN  IF h \notin DOMAIN u THEN "InvalidTransaction"
             ELSE IF h \in seen THEN "InvalidTransaction"
             ELSE ValidateInputs(Tail(inputs), u, seen \cup {h})

\* the indices of the mempool entries with an output whose hash is h
Referencing(pool, h) ==
    {i \in DOMAIN pool :
        \E j \in DOMAIN pool[i][2].outputs : OutputHash(pool[i][2].outputs[j]) = h}

\* Vec::remove
RemoveAt(s, i) == SubSeq(s, 1, i - 1) \o SubSeq(s, i + 1, Len(s))

RECURSIVE Evict(_, _, _)
\* the second loop of add_to_mempool: the utxos and the mempool it leaves
Evict(inputs, u, pool) ==
    IF inputs = <<>> THEN [utxos |-> u, mempool |-> pool]
    ELSE LET h == Head(inputs).prev_transaction_output_hash
         IN  IF h \in DOMAIN u /\ u[h][1]
                 THEN IF Referencing(pool, h) # {}
                         THEN LET i == CHOOSE i \in Referencing(pool, h) :
                                           \A k \in Referencing(pool, h) : i <= k
                              IN  Evict(Tail(inputs),
                                        SetMarkedAll(u, pool[i][2].inputs, FALSE),
                                        RemoveAt(pool, i))
                         ELSE Evict(Tail(inputs), SetMarked(u, h, FALSE), pool)
                 ELSE Evict(Tail(inputs), u, pool)

\* the key closure of sort_by_key: the fee, or why it aborts
miner_fee(tx, u, overflow_checks) ==
    IF \E i \in DOMAIN tx.inputs : tx.inputs[i].prev_transaction_output_hash \notin DOMAIN u
        THEN [res |-> "panic", fee |-> 0]
    ELSE LET inputs == SumInputs(tx.inputs, u)
             outputs == SumValues(tx.outputs)
         IN  IF inputs < outputs /\ overflow_checks THEN [res |-> "panic", fee |-> 0]
             ELSE [res |-> "Ok", fee |-> (inputs - outputs) % U64Modulus]

RECURSIVE InsertByKey(_, _)
\* a keyed entry goes after every entry whose key is not larger
InsertByKey(sorted, e) ==
    IF sorted = <<>> THEN <<e>>
    ELSE IF Head(sorted)[1] <= e[1] THEN <<Head(sorted)>> \o InsertByKey(Tail(sorted), e)
    ELSE <<e>> \o sorted

RECURSIVE SortKeyed(_)
SortKeyed(keyed) ==
    IF keyed = <<>> THEN <<>>
    ELSE InsertByKey(SortKeyed(SubSeq(keyed, 1, Len(keyed) - 1)), keyed[Len(keyed)])

\* Vec::sort_by_key with the fee as key: stable, ascending
sort_by_key(pool, u, overflow_checks) ==
    LET keyed == [i \in DOMAIN pool |->
                     <<miner_fee(pool[i][2], u, overflow_checks).fee, pool[i]>>]
        sorted == SortKeyed(keyed)
    IN  [i \in DOMAIN sorted |-> sorted[i][2]]

\* the orders an aborted sort can leave the vector in
Reorderings(s) ==
    {[i \in DOMAIN s |-> s[p[i]]] :
        p \in {q \in [DOMAIN s -> DOMAIN s] : \A i, j \in DOMAIN s : i # j => q[i] # q[j]}}

\* what add_to_mempool returns before it marks and pushes: the checks of the
\* first loop and of the balance, the latter on the utxos the second loop leaves
add_to_mempool_result(transaction) ==
    IF ValidateInputs(transaction.inputs, utxos, {}) # "Ok" THEN "InvalidTransaction"
    ELSE IF SumInputs(transaction.inputs, utxos) < SumValues(transaction.outputs)
        THEN "InvalidTransaction"
    ELSE "Ok"

\* Blockchain::add_to_mempool
add_to_mempool(transaction, overflow_checks) ==
    LET result == add_to_mempool_result(transaction)
        evicted == Evict(transaction.inputs, utxos, mempool)
        marked == SetMarkedAll(evicted.utxos, transaction.inputs, TRUE)
        pushed == Append(evicted.mempool, <<now, transaction>>)
        aborts == /\ Len(pushed) >= 2
                  /\ \E i \in DOMAIN pushed :
                        miner_fee(pushed[i][2], marked, overflow_checks).res = "panic"
    IN  /\ Len(mempool) < MaxMempool
        /\ IF ValidateInputs(transaction.inputs, utxos, {}) # "Ok"
              THEN /\ last' = [op |-> "add_to_mempool", result |-> result]
                   /\ UNCHANGED <<utxos, mempool>>
           ELSE IF result # "Ok"
              THEN /\ last' = [op |-> "add_to_mempool", result |-> result]
                   /\ utxos' = evicted.utxos
                   /\ mempool' = evicted.mempool
           ELSE IF aborts
              THEN /\ last' = [op |-> "add_to_mempool", result |-> "panic"]
                   /\ utxos' = marked
                   /\ mempool' \in Reorderings(pushed)
           ELSE /\ last' = [op |-> "add_to_mempool", result |-> "Ok"]
                /\ utxos' = marked
                /\ mempool' = sort_by_key(pushed, marked, overflow_checks)
        /\ UNCHANGED <<blocks, target, now>>
        /\ UNCHANGED <<minerVars, nodeVars>>

\* the entries cleanup_mempool drops
\* an entry expires at the maximum age already
Expired_at_max_age(e) == now - e[1] >= MAX_MEMPOOL_TRANSACTION_AGE

Expired(e) == now - e[1] > MAX_MEMPOOL_TRANSACTION_AGE

RECURSIVE UnmarkExpired(_, _)
UnmarkExpired(u, pool) ==
    IF pool = <<>> THEN u
    ELSE IF Expired(Head(pool))
        THEN UnmarkExpired(SetMarkedAll(u, Head(pool)[2].inputs, FALSE), Tail(pool))
    ELSE UnmarkExpired(u, Tail(pool))

\* Blockchain::cleanup_mempool
cleanup_mempool ==
    /\ mempool' = SelectSeq(mempool, LAMBDA e : ~Expired(e))
    /\ utxos' = UnmarkExpired(utxos, mempool)
    /\ last' = [op |-> "cleanup_mempool", result |-> "Ok"]
    /\ UNCHANGED <<blocks, target, now>>
    /\ UNCHANGED <<minerVars, nodeVars>>

\* the wall clock moves on by the maximum age
Tick ==
    /\ now < MaxTicks * MAX_MEMPOOL_TRANSACTION_AGE
    /\ now' = now + MAX_MEMPOOL_TRANSACTION_AGE
    /\ UNCHANGED <<blocks, target, utxos, mempool, last>>
    /\ UNCHANGED <<minerVars, nodeVars>>

\* ------------------------------------------------------------------ inputs
\* the Merkle roots a proposed header carries: the computed one and a wrong one
Roots(body) ==
    {Zero} \cup (IF MerkleRoot_calculate(body) = None THEN {}
                 ELSE {MerkleRoot_calculate(body)[1]})

\* the previous-block hashes a proposed header carries
PrevHashes ==
    {Zero, IF blocks = <<>> THEN HashUnknown ELSE BlockHash(blocks[Len(blocks)])}

\* a block as the node hands it out to a miner: nonce 0, the chain's target
Template(ts, prev, root, body) == Block(BlockHeader(ts, 0, prev, root, target), body)

\* the template after the miner's search
Mined(block) == [block EXCEPT !.header = mine(block.header, MaxSteps, now).header]

\* the transaction lists of the blocks proposed to the validation
Bodies ==
    { <<>>, <<CB1>>, <<CBFee>>, <<CB2, T1>>, <<CBFee, T1>>, <<T4, T3>>,
      <<CB1, TBadSig>>, <<CB1, T1, T2>> }

\* every proposal: any timestamp, a right or wrong previous hash and Merkle
\* root, mined or not
ProposedBlocks ==
    LET templates ==
            UNION { { Template(ts, prev, root, body) :
                        ts \in 1..MaxTimestamp, prev \in PrevHashes, root \in Roots(body) } :
                    body \in Bodies }
    IN  templates \cup {Mined(b) : b \in templates}

\* the transaction lists of the blocks a miner builds on the tip
MinerBodies == { <<CB1>>, <<CB1, CB2>>, <<CB2, T1>>, <<CB2, T2>> }

\* the blocks a miner submits: built on the tip, one second after it, with
\* the computed Merkle root, after the search
MinedBlocks ==
    { Mined(Template(IF blocks = <<>> THEN 1 ELSE blocks[Len(blocks)].header.timestamp + 1,
                     IF blocks = <<>> THEN Zero ELSE BlockHash(blocks[Len(blocks)]),
                     MerkleRoot_calculate(body)[1], body)) :
        body \in MinerBodies }

\* the transactions submitted to the mempool
SubmittedTransactions == {T1, T2, T3, T4, TUnknown}

\* a miner's block arrives
AddBlock ==
    /\ Len(blocks) < MaxBlocks
    /\ \E block \in MinedBlocks, c \in BOOLEAN : add_block(block, c)

\* any proposal arrives
ProposeBlock ==
    /\ Len(blocks) < MaxBlocks
    /\ \E block \in ProposedBlocks, c \in BOOLEAN : add_block(block, c)

AddToMempool == \E tx \in SubmittedTransactions, c \in BOOLEAN : add_to_mempool(tx, c)

\* the chain state under miners' blocks, submitted transactions and the clock
Next ==
    \/ AddBlock
    \/ rebuild_utxos
    \/ AddToMempool
    \/ cleanup_mempool
    \/ Tick

Spec == Init /\ [][Next]_vars

\* the chain under arbitrary block proposals
NextBlocks ==
    \/ ProposeBlock
    \/ rebuild_utxos

SpecBlocks == Init /\ [][NextBlocks]_vars

\* ---- the node under relayed blocks and transactions
\* the transaction lists of the blocks relayed to the node
NodeBodies == { <<CB1>>, <<CB2, T1>>, <<CB1, TBadSig>> }

\* the timestamps of relayed headers: the tip's own, one second earlier and
\* one second later
NodeTimestamps ==
    IF blocks = <<>> THEN {1}
    ELSE {blocks[Len(blocks)].header.timestamp + d : d \in {-1, 0, 1}}

\* the blocks relayed to the node: a right or wrong previous hash and Merkle
\* root, mined or not
SubmittedBlocks ==
    LET templates ==
            UNION { { Template(ts, prev, root, body) :
                        ts \in NodeTimestamps, prev \in PrevHashes, root \in Roots(body) } :
                    body \in NodeBodies }
    IN  templates \cup {Mined(b) : b \in templates}

\* the transactions relayed to the node
RelayedTransactions == {T1, T2}

\* a relayed block arrives
SubmitBlock ==
    /\ Len(blocks) < MaxBlocks
    /\ \E block \in SubmittedBlocks, c \in BOOLEAN : add_block(block, c)

\* a relayed transaction arrives
SubmitTransaction ==
    /\ Len(mempool) < MaxMempool
    /\ \E tx \in RelayedTransactions, c \in BOOLEAN : add_to_mempool(tx, c)

NextNode ==
    \/ SubmitBlock
    \/ rebuild_utxos
    \/ SubmitTransaction

\* the chain and the mempool of a node under relayed blocks and transactions
SpecNode == Init /\ [][NextNode]_vars

\* ---- a node whose mempool ages
\* the transaction lists of the blocks relayed to it
PoolBodies == { <<CB1, CB2>>, <<CB1, TSplit>> }

\* the blocks relayed to it: solved, on the tip, with the tip's timestamp or a
\* later one
PoolBlocks ==
    { Mined(Template(ts, IF blocks = <<>> THEN Zero ELSE BlockHash(blocks[Len(blocks)]),
                     MerkleRoot_calculate(body)[1], body)) :
        ts \in NodeTimestamps, body \in PoolBodies }

\* a relayed block arrives
ExtendChain ==
    /\ Len(blocks) < MaxBlocks
    /\ \E block \in PoolBlocks, c \in BOOLEAN : add_block(block, c)

NextPool ==
    \/ ExtendChain
    \/ rebuild_utxos
    \/ SubmitTransaction
    \/ cleanup_mempool
    \/ Tick

\* the chain, the UTXO index and the mempool of a node as time passes
SpecPool == Init /\ [][NextPool]_vars

\* ---- a chain mined at steady rates, long enough to retarget
\* the seconds between two blocks of a chain that stalls: long enough for
\* the scaled target of MIN_TARGET to pass the width of a U256
StalledSpacing == 20 * IDEAL_BLOCK_TIME

\* the seconds between two blocks of a steady miner: fast, ideal, slow, stalled
Spacings ==
    {IDEAL_BLOCK_TIME \div 2, IDEAL_BLOCK_TIME, 2 * IDEAL_BLOCK_TIME, StalledSpacing}

\* the template after a search whose budget covers every value of the hash:
\* mine stops at the first nonce, counting up from the template's, whose hash
\* matches the target
MinedFully(block) ==
    IF matches_target(HeaderHash(block.header), block.header.target) THEN block
    ELSE LET solving == {n \in (block.header.nonce + 1)..(block.header.nonce + U256Modulus) :
                            matches_target(HeaderHash([block.header EXCEPT !.nonce = n]),
                                           block.header.target)}
             first == CHOOSE n \in solving : \A m \in solving : n <= m
         IN  [block EXCEPT !.header.nonce = first]

\* the timestamps of the next block: the rate is chosen on the second block
\* and again on the first block of every difficulty interval, and kept between
SteadyTimestamps ==
    IF blocks = <<>> THEN {1}
    ELSE LET tip == blocks[Len(blocks)].header.timestamp
         IN  IF Len(blocks) = 1 \/ Len(blocks) % DIFFICULTY_UPDATE_INTERVAL = 0
                 THEN {tip + s : s \in Spacings}
             ELSE {tip + (tip - blocks[Len(blocks) - 1].header.timestamp)}

\* the blocks of the steady miner: a coinbase alone, built on the tip, solved
SteadyBlocks ==
    { MinedFully(Template(ts,
                          IF blocks = <<>> THEN Zero ELSE BlockHash(blocks[Len(blocks)]),
                          MerkleRoot_calculate(<<CB1>>)[1], <<CB1>>)) :
        ts \in SteadyTimestamps }

\* the steady miner's next block arrives
MineSteadily ==
    /\ Len(blocks) < DIFFICULTY_UPDATE_INTERVAL * MaxIntervals + 1
    /\ \E block \in SteadyBlocks, c \in BOOLEAN : add_block(block, c)

NextRetarget == MineSteadily

\* the chain over whole difficulty intervals
SpecRetarget == Init /\ [][NextRetarget]_vars

\* ------------------------------------------------------------------ miner
\* Message::FetchTemplate, Message::ValidateTemplate, Message::SubmitTemplate
FetchTemplate(public_key) == [type |-> "FetchTemplate", public_key |-> public_key]
ValidateTemplate(block) == [type |-> "ValidateTemplate", block |-> block]
SubmitTemplate(block) == [type |-> "SubmitTemplate", block |-> block]
TemplateMessage(block) == [type |-> "Template", block |-> block]
TemplateValidity(valid) == [type |-> "TemplateValidity", valid |-> valid]

\* the targets a node's chain can have retargeted to when it builds a template
TemplateTargets == {MIN_TARGET, MIN_TARGET \div 4, MIN_TARGET \div 16}

\* the templates a node answers FetchTemplate with: built on its tip, with
\* its target, paying the miner
MinerTemplates ==
    { [Template(ts, IF blocks = <<>> THEN Zero ELSE BlockHash(blocks[Len(blocks)]),
                MerkleRoot_calculate(body)[1], body) EXCEPT !.header.target = t] :
        ts \in NodeTimestamps, body \in {<<CB1>>, <<CB1, CB2>>}, t \in TemplateTargets }

\* Miner::fetch_template, called by fetch_and_validate_template while not
\* mining: the guard of current_template is taken for the replace only
fetch_template(template) ==
    /\ ~mining
    /\ pc.async = "idle"
    /\ template_lock = "free"
    /\ stream' = FetchTemplate(Alice)
    /\ received' = TemplateMessage(template)
    /\ current_template' = Some(template)
    /\ mining' = TRUE
    /\ UNCHANGED <<mined_block_channel, worker, template_lock, pc>>
    /\ UNCHANGED <<chainVars, nodeVars>>

\* Miner::validate_template, called by fetch_and_validate_template while
\* mining, up to its wait for the answer: the guard taken in the condition of
\* the if let lives to the end of its block
validate_template_send ==
    /\ mining
    /\ pc.async = "idle"
    /\ template_lock = "free"
    /\ current_template # None
    /\ template_lock' = "async"
    /\ stream' = ValidateTemplate(current_template[1])
    /\ pc' = [pc EXCEPT !.async = "validity"]
    /\ UNCHANGED <<current_template, mining, mined_block_channel, worker, received>>
    /\ UNCHANGED <<chainVars, nodeVars>>

\* Miner::validate_template from the node's answer on; valid is the answer
validate_template_receive(valid) ==
    /\ pc.async = "validity"
    /\ received' = TemplateValidity(valid)
    /\ mining' = (IF valid THEN mining ELSE FALSE)
    /\ template_lock' = "free"
    /\ pc' = [pc EXCEPT !.async = "idle"]
    /\ UNCHANGED <<current_template, mined_block_channel, worker, stream>>
    /\ UNCHANGED <<chainVars, nodeVars>>

\* the mining thread at the top of its loop: it takes the guard of the
\* template and clones the template; the guard lives to the end of the if let
mining_thread_lock ==
    /\ pc.worker = "idle"
    /\ template_lock = "free"
    /\ current_template # None
    /\ Len(mined_block_channel) < MaxChannel
    /\ template_lock' = "worker"
    /\ pc' = [pc EXCEPT !.worker = "batch"]
    /\ UNCHANGED <<current_template, mining, mined_block_channel, stream, worker,
                   received>>
    /\ UNCHANGED <<chainVars, nodeVars>>

\* the rest of one turn of the loop of the mining thread: a batch on the
\* clone of the template, sent on the channel if mine returned true
mining_thread ==
    /\ pc.worker = "batch"
    /\ LET r == mine(current_template[1].header, MaxSteps, now)
           block == [current_template[1] EXCEPT !.header = r.header]
       IN  /\ worker' = Some([block |-> block, solved |-> r.solved])
           /\ IF r.solved
                 THEN /\ mined_block_channel' = Append(mined_block_channel, block)
                      /\ mining' = FALSE
                 ELSE UNCHANGED <<mined_block_channel, mining>>
    /\ template_lock' = "free"
    /\ pc' = [pc EXCEPT !.worker = "idle"]
    /\ UNCHANGED <<current_template, stream, received>>
    /\ UNCHANGED <<chainVars, nodeVars>>

\* submit_block without its store to the searching flag
submit_block_keeps_searching ==
    /\ pc.async = "idle"
    /\ mined_block_channel # <<>>
    /\ stream' = SubmitTemplate(Head(mined_block_channel))
    /\ mined_block_channel' = Tail(mined_block_channel)
    /\ UNCHANGED <<current_template, mining, worker, received, template_lock, pc>>
    /\ UNCHANGED <<chainVars, nodeVars>>

\* Miner::submit_block, on a block received from the channel
submit_block ==
    /\ pc.async = "idle"
    /\ mined_block_channel # <<>>
    /\ stream' = SubmitTemplate(Head(mined_block_channel))
    /\ mined_block_channel' = Tail(mined_block_channel)
    /\ mining' = FALSE
    /\ UNCHANGED <<current_template, worker, received, template_lock, pc>>
    /\ UNCHANGED <<chainVars, nodeVars>>

\* the poll interval fires and the node answers
FetchTemplateFromNode == \E template \in MinerTemplates : fetch_template(template)

ValidateTemplateAtNode == \E valid \in BOOLEAN : validate_template_receive(valid)

NextMiner ==
    \/ FetchTemplateFromNode
    \/ validate_template_send
    \/ ValidateTemplateAtNode
    \/ mining_thread_lock
    \/ mining_thread
    \/ submit_block

\* a miner against a node
SpecMiner == Init /\ [][NextMiner]_vars

\* the scheduling of the miner: the mining thread runs whenever it can, the
\* node answers, and the select! of Miner::run, which picks among its ready
\* branches at random, takes each branch that is ready again and again; a
\* poll tick that waits for the guard of the template gets it in the end
FairMiner ==
    /\ WF_vars(mining_thread_lock \/ mining_thread)
    /\ WF_vars(ValidateTemplateAtNode)
    /\ SF_vars(submit_block)
    /\ SF_vars(FetchTemplateFromNode)

\* a miner against a node, fairly scheduled
SpecMinerFair == Init /\ [][NextMiner]_vars /\ FairMiner

\* ---- a node that is stopped and started again
\* util::load_blockchain on the file the running chain was saved to: the
\* file holds blocks, target and utxos, the mempool is not saved
load_blockchain ==
    LET aborts == try_adjust_target_aborts(blocks, target)
    IN  /\ utxos' = ReplayBlocks(utxos, blocks)
        /\ target' = IF aborts THEN target ELSE try_adjust_target(blocks, target)
        /\ mempool' = <<>>
        /\ last' = [op |-> "load_blockchain", result |-> IF aborts THEN "panic" ELSE "Ok"]
        /\ UNCHANGED <<blocks, now>>
        /\ UNCHANGED <<minerVars, nodeVars>>

\* the steady miner's next block arrives, up to the first block of the second
\* difficulty interval
MineInterval ==
    /\ Len(blocks) < DIFFICULTY_UPDATE_INTERVAL + 1
    /\ MineSteadily

NextReload ==
    \/ MineInterval
    \/ load_blockchain

\* the chain over one difficulty interval, saved and loaded in between
SpecReload == Init /\ [][NextReload]_vars

\* ---- transactions with good and bad signatures
\* the transactions a wallet or a forger sends: both spend the output of CB2,
\* T4 signed by its owner and TBadSig by someone else
SignedTransactions == {T4, TBadSig}

\* a signed transaction arrives
SubmitSigned ==
    /\ Len(mempool) < MaxMempool
    /\ \E tx \in SignedTransactions, c \in BOOLEAN : add_to_mempool(tx, c)

NextSigned ==
    \/ ExtendChain
    \/ rebuild_utxos
    \/ SubmitSigned

\* the chain and the mempool under signed transactions
SpecSigned == Init /\ [][NextSigned]_vars

\* ---- blocks that declare their own target
\* the targets a relayed block declares: harder than the chain's, the
\* chain's, easier than the chain's, the easiest there is
DeclaredTargets == {target \div 4, target, 4 * target + 3, U256Modulus - 1}

\* the blocks relayed with a declared target: a coinbase alone, built on the
\* tip, searched against the declared target or not searched
DeclaredBlocks ==
    LET templates ==
            { [Template(ts, IF blocks = <<>> THEN Zero ELSE BlockHash(blocks[Len(blocks)]),
                        MerkleRoot_calculate(<<CB1>>)[1], <<CB1>>)
                  EXCEPT !.header.target = t] :
                ts \in NodeTimestamps, t \in DeclaredTargets }
    IN  templates \cup {Mined(b) : b \in templates}

\* a relayed block with a declared target arrives
DeclareTarget ==
    /\ Len(blocks) < MaxBlocks
    /\ \E block \in DeclaredBlocks, c \in BOOLEAN : add_block(block, c)

NextTargets == DeclareTarget

\* the chain under blocks that declare their target
SpecTargets == Init /\ [][NextTargets]_vars

\* ---- the block reward over the heights
\* the predicted heights: around every halving up to the last, and the first
\* height whose number of halvings does not fit a u32
PredictedHeights ==
    {HALVING_INTERVAL * k + d :
        k \in 0..MaxHalvings, d \in {0, 1, HALVING_INTERVAL \div 2, HALVING_INTERVAL - 1}}
    \cup {HALVING_INTERVAL * U32Modulus}

\* a call of calcualte_block_reward
block_reward(predicted_block_height) ==
    /\ last' = IF calcualte_block_reward_aborts(predicted_block_height)
                  THEN [op |-> "calcualte_block_reward", result |-> "panic",
                        height |-> predicted_block_height, value |-> 0]
                  ELSE [op |-> "calcualte_block_reward", result |-> "Ok",
                        height |-> predicted_block_height,
                        value |-> calcualte_block_reward(predicted_block_height)]
    /\ UNCHANGED <<blocks, target, utxos, mempool, now>>
    /\ UNCHANGED <<minerVars, nodeVars>>

NextReward == \E h \in PredictedHeights : block_reward(h)

\* the reward of every predicted height
SpecReward == Init /\ [][NextReward]_vars

\* ------------------------------------------------------- the node's start
Peers == 1..MaxPeers

\* the sequences over S of a length up to n
SeqsUpTo(S, n) == UNION {[1..k -> S] : k \in 0..n}

\* what a blockchain file can hold
SavedChains ==
    { [blocks |-> <<>>, target |-> MIN_TARGET, utxos |-> <<>>, mempool |-> <<>>],
      [blocks |-> <<Mined(Template(1, Zero, MerkleRoot_calculate(<<CB1>>)[1], <<CB1>>))>>,
       target |-> MIN_TARGET, utxos |-> <<>>, mempool |-> <<>>] }

\* what a peer does to populate_connection: it refuses the connection, its
\* stream fails in the exchange, it answers another message, or it answers
\* NodeList(neighbours) and the neighbour number `refusing` refuses (0: none)
PeerAnswers ==
    {[type |-> t, neighbours |-> <<>>, refusing |-> 0] : t \in {"refused", "failure", "other"}}
    \cup {[type |-> "NodeList", neighbours |-> n, refusing |-> r] :
            n \in SeqsUpTo(Peers, MaxNeighbours), r \in 0..MaxNeighbours}

\* the blockchain files: load_from_file reads the chain or fails
BlockchainFiles == {[readable |-> r, chain |-> c] : r \in BOOLEAN, c \in SavedChains}

\* main up to the loop of populate_connection: file is None (no blockchain
\* file) or Some(file)
main(file, nodes) ==
    /\ node.pc = "main"
    /\ IF file # None
          THEN IF ~file[1].readable
                  THEN /\ node' = [node EXCEPT !.pc = "Err"]
                       /\ UNCHANGED <<blocks, target, utxos, mempool, last>>
                  ELSE /\ blocks' = file[1].chain.blocks
                       /\ utxos' = ReplayBlocks(file[1].chain.utxos, file[1].chain.blocks)
                       /\ target' = try_adjust_target(file[1].chain.blocks, file[1].chain.target)
                       /\ mempool' = file[1].chain.mempool
                       /\ last' = [op |-> "rebuild_utxos", result |-> "Ok"]
                       /\ node' = [node EXCEPT !.pc = "Ok"]
          ELSE /\ node' = IF nodes = <<>>
                             THEN [node EXCEPT !.pc = "Ok"]
                             ELSE [node EXCEPT !.pc = "populate_connection", !.nodes = nodes]
               /\ UNCHANGED <<blocks, target, utxos, mempool, last>>
    /\ UNCHANGED <<NODES, now>>
    /\ UNCHANGED minerVars

\* one turn of the loop of populate_connection, on the next initial node
populate_connection(answer) ==
    /\ node.pc = "populate_connection"
    /\ node.nodes # <<>>
    /\ answer.refusing <= Len(answer.neighbours)
    /\ LET peer == Head(node.nodes)
           neighbours == answer.neighbours
       IN  CASE answer.type \in {"refused", "failure"} ->
                   /\ node' = [node EXCEPT !.pc = "Err", !.peer = peer]
                   /\ UNCHANGED NODES
             [] answer.type = "NodeList" /\ answer.refusing > 0 ->
                   /\ NODES' = NODES \cup {neighbours[i] : i \in 1..(answer.refusing - 1)}
                   /\ node' = [node EXCEPT !.pc = "Err", !.peer = neighbours[answer.refusing]]
             [] answer.type = "NodeList" /\ answer.refusing = 0 ->
                   /\ NODES' = NODES \cup Range(neighbours) \cup {peer}
                   /\ node' = [node EXCEPT !.nodes = Tail(node.nodes)]
             [] OTHER ->
                   /\ NODES' = NODES \cup {peer}
                   /\ node' = [node EXCEPT !.nodes = Tail(node.nodes)]
    /\ UNCHANGED <<chainVars, minerVars>>

\* main after populate_connection returned Ok: the longest chain (none is
\* downloaded), rebuild_utxos and try_adjust_target
main_finish ==
    /\ node.pc = "populate_connection"
    /\ node.nodes = <<>>
    /\ utxos' = ReplayBlocks(utxos, blocks)
    /\ target' = try_adjust_target(blocks, target)
    /\ last' = [op |-> "rebuild_utxos", result |-> "Ok"]
    /\ node' = [node EXCEPT !.pc = "Ok"]
    /\ UNCHANGED <<blocks, mempool, now, NODES>>
    /\ UNCHANGED minerVars

\* the node is started with a blockchain file or without, and initial nodes
StartNode ==
    \E file \in {None} \cup {Some(f) : f \in BlockchainFiles},
       nodes \in SeqsUpTo(Peers, MaxPeers) : main(file, nodes)

\* the next initial node answers
PeerAnswer == \E answer \in PeerAnswers : populate_connection(answer)

NextStartup ==
    \/ StartNode
    \/ PeerAnswer
    \/ main_finish

\* a node from its start to the end of main
SpecStartup == Init /\ [][NextStartup]_vars

TypeOK ==
    /\ Len(blocks) <= MaxBlocks
    /\ Len(mempool) <= MaxMempool
    /\ target \in 0..MIN_TARGET

\* ------------------------------------------------------------------ claims
\* the transactions of the mempool
MempoolTransactions == {mempool[i][2] : i \in DOMAIN mempool}

\* the digests a transaction's inputs refer to
InputHashes(tx) == {tx.inputs[i].prev_transaction_output_hash : i \in DOMAIN tx.inputs}

\* the transactions of the chain
ChainTransactions ==
    UNION {Range(blocks[i].transactions) : i \in DOMAIN blocks}

\* C1: every adjacent pair of blocks of the chain is linked by the hash of
\* the earlier block and has strictly increasing timestamps, whatever
\* add_block calls succeeded or failed.
C1_AdjacentBlocksLinked ==
    \A i \in 1..(Len(blocks) - 1) :
        /\ blocks[i + 1].header.prev_block_hash = BlockHash(blocks[i])
        /\ blocks[i + 1].header.timestamp > blocks[i].header.timestamp

\* C1 witness: a chain with an adjacent pair, after an add_block that failed
C1_Witness ==
    /\ Len(blocks) >= 2
    /\ last.op = "add_block"
    /\ last.result # "Ok"

\* C2: every block of the chain, the genesis block included, has a header
\* hash that matches the target the header declares.
C2_EveryBlockMeetsItsTarget ==
    \A i \in DOMAIN blocks :
        matches_target(HeaderHash(blocks[i].header), blocks[i].header.target)

\* C3: every block of the chain, the genesis block included, carries the
\* Merkle root computed from its transactions.
C3_EveryBlockCarriesItsMerkleRoot ==
    \A i \in DOMAIN blocks :
        MerkleRoot_calculate(blocks[i].transactions) = Some(blocks[i].header.merkle_root)

\* the coinbase of the block pays the reward of the height plus the fees of
\* the other transactions, the fees taken on the given utxos
CoinbaseValueEquality(block, height, u) ==
    /\ block.transactions # <<>>
    /\ LET r == FeeLoop(Skip1(block.transactions), u, {}, {}, 0, 0)
       IN  /\ r.res = "Ok"
           /\ SumValues(Head(block.transactions).outputs)
                = calcualte_block_reward(height) + r.input_value - r.output_value

\* C4: a block that add_block appends at height h has a coinbase whose
\* outputs sum to block_reward(h) plus the block's fees; any other block is
\* rejected.
C4_AcceptedCoinbasePaysRewardPlusFees ==
    [][Len(blocks') = Len(blocks) + 1
          => CoinbaseValueEquality(blocks'[Len(blocks')], Len(blocks), utxos)]_vars

\* C5: a UTXO is reserved if and only if a transaction of the mempool has an
\* input that refers to it.
C5_ReservedIffSpentInMempool ==
    \A h \in DOMAIN utxos :
        utxos[h][1] <=> \E tx \in MempoolTransactions : h \in InputHashes(tx)

\* C6: when add_to_mempool admits a transaction that spends a UTXO an
\* earlier mempool transaction spends, the new one is in the mempool, the
\* earlier one is not, and the UTXO is reserved.
C6_ReplaceByConflict ==
    [][\A t2 \in SubmittedTransactions :
          \A t1 \in MempoolTransactions \ {t2} :
             \A u \in InputHashes(t1) \cap InputHashes(t2) :
                ((\E c \in BOOLEAN : add_to_mempool(t2, c)) /\ last'.result = "Ok")
                   => /\ t2 \in {mempool'[i][2] : i \in DOMAIN mempool'}
                      /\ t1 \notin {mempool'[i][2] : i \in DOMAIN mempool'}
                      /\ utxos'[u][1]]_vars

\* C7: when add_block appends a block that contains a transaction of the
\* mempool, the transaction leaves the mempool and every UTXO its inputs
\* refer to is unreserved, unless a transaction still in the mempool spends it.
C7_EvictionByBlockInclusion ==
    [][Len(blocks') = Len(blocks) + 1
          => \A t \in MempoolTransactions \cap Range(blocks'[Len(blocks')].transactions) :
                /\ t \notin {mempool'[i][2] : i \in DOMAIN mempool'}
                /\ \A h \in InputHashes(t) \cap DOMAIN utxos' :
                      \/ ~utxos'[h][1]
                      \/ \E i \in DOMAIN mempool' : h \in InputHashes(mempool'[i][2])]_vars

\* C8: no transaction of the mempool has the hash of a transaction of a
\* block of the chain.
C8_MempoolDisjointFromChain ==
    \A t \in MempoolTransactions :
        \A c \in ChainTransactions : TxHash(t) # TxHash(c)

\* fee(t): the values of the UTXOs the inputs of t refer to, minus the
\* values of the outputs of t
RECURSIVE ReferencedValue(_, _)
ReferencedValue(inputs, u) ==
    IF inputs = <<>> THEN 0
    ELSE (IF Head(inputs).prev_transaction_output_hash \in DOMAIN u
             THEN u[Head(inputs).prev_transaction_output_hash][2].value ELSE 0)
           + ReferencedValue(Tail(inputs), u)

Fee(tx) == ReferencedValue(tx.inputs, utxos) - SumValues(tx.outputs)

\* C9: after every call that returned, the mempool is in ascending order of
\* fee.
C9_MempoolOrderedByFee ==
    last.result # "panic"
        => \A i \in 1..(Len(mempool) - 1) : Fee(mempool[i][2]) <= Fee(mempool[i + 1][2])

\* C10: an add_to_mempool that returns InvalidTransaction leaves the mempool
\* and every reserved flag as they were.
C10_RejectionLeavesStateUnchanged ==
    [][(last'.op = "add_to_mempool" /\ last'.result = "InvalidTransaction")
          => (mempool' = mempool /\ utxos' = utxos)]_vars

\* C11: an add_block that returns an error leaves blocks, target, utxos and
\* mempool exactly as they were before the call.
C11_AddBlockErrorLeavesStateUnchanged ==
    [][(last'.op = "add_block" /\ last'.result \notin {"Ok", "panic"})
          => (blocks' = blocks /\ target' = target /\ utxos' = utxos /\ mempool' = mempool)]_vars

\* C11 witness: an add_block was rejected while the mempool held a transaction
\* and the index held outputs
C11_Witness ==
    /\ last.op = "add_block"
    /\ last.result \in {"InvalidBlock", "InvalidHash", "InvalidMerkleRoot",
                        "InvalidTransaction", "InvalidSignature"}
    /\ mempool # <<>>
    /\ utxos # <<>>
    /\ blocks # <<>>

\* C12: the target of the chain never exceeds MIN_TARGET, in the initial
\* state and after every operation, whatever the timestamps of the blocks
\* add_block accepted.
C12_TargetAtMostMinTarget == target <= MIN_TARGET

\* C12 witness: a retarget computed a value above MIN_TARGET (the interval
\* took longer than ideal at the easiest target) and the chain went on
C12_Witness ==
    /\ Len(blocks) > DIFFICULTY_UPDATE_INTERVAL
    /\ target = MIN_TARGET
    /\ blocks[DIFFICULTY_UPDATE_INTERVAL].header.timestamp - blocks[1].header.timestamp
          > IDEAL_BLOCK_TIME * DIFFICULTY_UPDATE_INTERVAL

\* consecutive blocks of the chain are exactly d seconds apart
EvenlySpaced(d) ==
    \A i \in 1..(Len(blocks) - 1) :
        blocks[i + 1].header.timestamp - blocks[i].header.timestamp = d

\* C17: from the initial target, once DIFFICULTY_UPDATE_INTERVAL blocks whose
\* consecutive timestamps are exactly IDEAL_BLOCK_TIME seconds apart have been
\* appended, the target is the initial target.
C17_IdealSpacingKeepsTarget ==
    (Len(blocks) = DIFFICULTY_UPDATE_INTERVAL /\ EvenlySpaced(IDEAL_BLOCK_TIME))
        => target = MIN_TARGET

\* C17 witness: the 50th block of an ideally spaced chain has just been appended
C17_Witness ==
    /\ Len(blocks) = DIFFICULTY_UPDATE_INTERVAL
    /\ EvenlySpaced(IDEAL_BLOCK_TIME)
    /\ last = [op |-> "add_block", result |-> "Ok"]

\* C13: no step removes or changes a stored block, and an add_block that
\* returns Ok stores the proposed block last and raises block_height by
\* exactly one (from 0 to 1 for a genesis block on the empty chain).
C13_ChainIsAppendOnly ==
    [][/\ Len(blocks') >= Len(blocks)
       /\ SubSeq(blocks', 1, Len(blocks)) = blocks
       /\ (last'.op = "add_block" /\ last'.result = "Ok")
             => /\ Len(blocks') = Len(blocks) + 1
                /\ \E b \in SubmittedBlocks : blocks' = Append(blocks, b)
                /\ (blocks = <<>> => blocks'[1].header.prev_block_hash = Zero)
       /\ (last'.op # "add_block" \/ last'.result # "Ok") => blocks' = blocks]_vars

\* C13 witness: a block has just been appended to a chain that held blocks
C13_Witness ==
    /\ Len(blocks) >= 2
    /\ last = [op |-> "add_block", result |-> "Ok"]
    /\ mempool # <<>>

\* the relayed blocks whose previous hash is not the one the chain expects:
\* the hash of the tip, or zero on the empty chain
WrongPrevious ==
    {b \in SubmittedBlocks :
        b.header.prev_block_hash
            # (IF blocks = <<>> THEN Zero ELSE BlockHash(blocks[Len(blocks)]))}

\* C14: add_block of a block whose prev_block_hash is not the hash of the
\* last block returns InvalidHash on a non-empty chain; on the empty chain
\* add_block of a block whose prev_block_hash is not zero returns InvalidBlock.
\* (In every state the chain reaches, for every such block relayed to it.)
C14_WrongPreviousHashError ==
    \A b \in WrongPrevious, c \in BOOLEAN :
        add_block_result(b, c) = (IF blocks = <<>> THEN "InvalidBlock" ELSE "InvalidHash")

\* C14 witness: a block with a zero previous hash was refused on a chain that
\* holds blocks
C14_Witness ==
    /\ blocks # <<>>
    /\ last = [op |-> "add_block", result |-> "InvalidHash"]

\* two inputs of transactions after the coinbase refer to the same UTXO
DoubleSpends(block) ==
    \E i, j \in 2..Len(block.transactions) :
        \E m \in DOMAIN block.transactions[i].inputs, n \in DOMAIN block.transactions[j].inputs :
            /\ <<i, m>> # <<j, n>>
            /\ block.transactions[i].inputs[m].prev_transaction_output_hash
                 = block.transactions[j].inputs[n].prev_transaction_output_hash

\* C15: a block in which two inputs of non-coinbase transactions refer to
\* the same UTXO is never appended, whatever the chain it is proposed to, the
\* empty chain included.
C15_NoDoubleSpendInStoredBlock ==
    \A i \in DOMAIN blocks : ~DoubleSpends(blocks[i])

\* an input after the coinbase refers to a UTXO of the index and carries a
\* signature that does not verify against that UTXO's pubkey
BadlySigned(block) ==
    \E i \in 2..Len(block.transactions) :
        \E m \in DOMAIN block.transactions[i].inputs :
            LET input == block.transactions[i].inputs[m]
                h == input.prev_transaction_output_hash
            IN  /\ h \in DOMAIN utxos
                /\ ~(input.signature.signer = utxos[h][2].pubkey /\ input.signature.msg = h)

\* the block passes every rule of a non-empty chain other than the signatures
OtherwiseValid(block) ==
    /\ blocks # <<>>
    /\ block.header.prev_block_hash = BlockHash(blocks[Len(blocks)])
    /\ HeaderHash(block.header) <= block.header.target
    /\ MerkleRoot_calculate(block.transactions) = Some(block.header.merkle_root)
    /\ block.header.timestamp > blocks[Len(blocks)].header.timestamp
    /\ ~DoubleSpends(block)
    /\ \A i \in 2..Len(block.transactions) :
          /\ InputHashes(block.transactions[i]) \subseteq DOMAIN utxos
          /\ ReferencedValue(block.transactions[i].inputs, utxos)
                >= SumValues(block.transactions[i].outputs)

\* C16: on a non-empty chain, add_block of an otherwise valid block with a
\* non-coinbase input whose signature does not verify against the pubkey of
\* the UTXO it refers to returns InvalidSignature, and an add_block that
\* returns InvalidSignature appends nothing.
C16_BadSignatureRejected ==
    /\ [](\A b \in SubmittedBlocks, c \in BOOLEAN :
             (OtherwiseValid(b) /\ BadlySigned(b))
                => add_block_result(b, c) = "InvalidSignature")
    /\ [][(last'.op = "add_block" /\ last'.result = "InvalidSignature")
             => blocks' = blocks]_vars

\* C16 witness: a block with a badly signed input has just been refused
C16_Witness ==
    /\ blocks # <<>>
    /\ last = [op |-> "add_block", result |-> "InvalidSignature"]
    /\ \E b \in SubmittedBlocks : OtherwiseValid(b) /\ BadlySigned(b)

\* C19: for the transactions of every block proposed to the chain,
\* MerkleRoot::calculate returns none exactly when the list is empty; a list
\* of three transactions, whose first layer has odd length, has a root.
C19_MerkleRootOfEveryNonEmptyList ==
    \A b \in ProposedBlocks :
        (b.transactions = <<>>) <=> (MerkleRoot_calculate(b.transactions) = None)

\* C18: when mine returns true the header it leaves has a hash that matches
\* its target, and when the batch ran out of steps without such a hash mine
\* returns false.
C18_MineReportsWhetherSolved ==
    worker # None
        => (worker[1].solved
              <=> matches_target(HeaderHash(worker[1].block.header),
                                 worker[1].block.header.target))

\* C20: every block the miner writes in a SubmitTemplate message has a header
\* hash that matches its header target, and so has every block the mining
\* thread put on the mined-block channel.
C20_SubmittedBlocksAreSolved ==
    /\ (stream # None /\ stream.type = "SubmitTemplate")
          => matches_target(HeaderHash(stream.block.header), stream.block.header.target)
    /\ \A i \in DOMAIN mined_block_channel :
          matches_target(HeaderHash(mined_block_channel[i].header),
                         mined_block_channel[i].header.target)

\* the node answered TemplateValidity(false) and no template was fetched
\* since: the current template is the abandoned one
Abandoned ==
    /\ received # None
    /\ received.type = "TemplateValidity"
    /\ ~received.valid

\* C21: once the miner has received TemplateValidity(false) for its current
\* template and cleared the searching flag, the mining thread searches that
\* template no more: it starts no batch on it and sends no block derived
\* from it on the channel.
C21_AbandonedTemplateNotMined ==
    [][Abandoned => /\ pc'.worker = "batch" => pc.worker = "batch"
                    /\ Len(mined_block_channel') <= Len(mined_block_channel)]_vars

\* C22: the guard of the current template is held for a clone or a replace
\* only: the mining thread does not hold it during a batch and the task of
\* Miner::run does not hold it while it awaits the node's answer.
C22_TemplateLockHeldForCloneOnly ==
    /\ pc.worker = "batch" => template_lock # "worker"
    /\ pc.async = "validity" => template_lock # "async"

\* C23: a transport error with one peer while the node starts (a refused
\* connection, a stream that fails in the exchange of DiscoverNodes and
\* NodeList) does not end the node: main returns no error on account of a
\* peer.
C23_PeerErrorDoesNotEndNode == node.pc = "Err" => node.peer = 0

\* the failures of a block proposed to a chain that holds blocks
PreviousHashWrong(block) ==
    block.header.prev_block_hash # BlockHash(blocks[Len(blocks)])

HashAboveTarget(block) == HeaderHash(block.header) > block.header.target

MerkleMismatch(block) ==
    MerkleRoot_calculate(block.transactions) # Some(block.header.merkle_root)

NotLater(block) == block.header.timestamp <= blocks[Len(blocks)].header.timestamp

\* C24: on a chain that holds blocks add_block returns the error of the first
\* check that fails, in the order previous hash (InvalidHash), proof of work
\* (InvalidBlock), Merkle root (InvalidMerkleRoot), timestamp (InvalidBlock),
\* transactions (the result of verify_transactions).
C24_FirstFailingCheckDecides ==
    blocks # <<>> =>
        \A b \in SubmittedBlocks, c \in BOOLEAN :
            add_block_result(b, c) =
                CASE PreviousHashWrong(b) -> "InvalidHash"
                  [] ~PreviousHashWrong(b) /\ HashAboveTarget(b) -> "InvalidBlock"
                  [] ~PreviousHashWrong(b) /\ ~HashAboveTarget(b) /\ MerkleMismatch(b)
                        -> "InvalidMerkleRoot"
                  [] ~PreviousHashWrong(b) /\ ~HashAboveTarget(b) /\ ~MerkleMismatch(b)
                        /\ NotLater(b) -> "InvalidBlock"
                  [] OTHER -> verify_transactions(b, block_height, utxos, c)

\* C24 witness: a solved block on the tip with a wrong Merkle root and the
\* tip's timestamp was refused for its Merkle root
C24_Witness ==
    /\ blocks # <<>>
    /\ last = [op |-> "add_block", result |-> "InvalidMerkleRoot"]
    /\ \E b \in SubmittedBlocks :
          /\ ~PreviousHashWrong(b)
          /\ ~HashAboveTarget(b)
          /\ MerkleMismatch(b)
          /\ NotLater(b)

\* whole seconds between the first block of the last interval and the tip
WindowSeconds ==
    blocks[Len(blocks)].header.timestamp
        - blocks[Len(blocks) - DIFFICULTY_UPDATE_INTERVAL + 1].header.timestamp

\* C25: whenever a retarget fires (the chain holds blocks and their number is
\* a multiple of DIFFICULTY_UPDATE_INTERVAL) the computation does not abort
\* and the new target is min(MIN_TARGET, clamp(floor(target * dt /
\* (IDEAL_BLOCK_TIME * DIFFICULTY_UPDATE_INTERVAL)), target / 4, target * 4)),
\* hence between a quarter and four times the old target.
C25_RetargetFormulaNeverAborts ==
    [][(/\ blocks # <<>>
        /\ Len(blocks) % DIFFICULTY_UPDATE_INTERVAL = 0
        /\ last'.op = "add_block")
          => /\ last'.result # "panic"
             /\ target' = Min(MIN_TARGET,
                              Clamp((target * WindowSeconds)
                                       \div (IDEAL_BLOCK_TIME * DIFFICULTY_UPDATE_INTERVAL),
                                    target \div 4, target * 4))
             /\ target \div 4 <= target'
             /\ target' <= 4 * target]_vars

\* C26: add_block adjusts the target after it has appended the block: the
\* target changes only in a call that leaves a chain whose length, the new
\* block included, is a multiple of DIFFICULTY_UPDATE_INTERVAL.
C26_RetargetCountsTheNewBlock ==
    [][(last'.op = "add_block" /\ target' # target)
          => Len(blocks') % DIFFICULTY_UPDATE_INTERVAL = 0]_vars

RECURSIVE TransactionsInOrder(_)
\* the transactions of the blocks, in the order of the chain
TransactionsInOrder(bs) ==
    IF bs = <<>> THEN <<>>
    ELSE Head(bs).transactions \o TransactionsInOrder(Tail(bs))

\* the map a replay from the empty map leaves: a key for every transaction
\* with outputs that no later transaction spends, holding <<false, its last
\* output>>
ReplayedFromEmpty(bs) ==
    LET txs == TransactionsInOrder(bs)
        Unspent(i) ==
            /\ txs[i].outputs # <<>>
            /\ \A j \in (i + 1)..Len(txs) : TxHash(txs[i]) \notin InputHashes(txs[j])
        kept == {i \in DOMAIN txs : Unspent(i)}
    IN  [h \in {TxHash(txs[i]) : i \in kept} |->
            LET i == CHOOSE k \in kept : TxHash(txs[k]) = h
            IN  <<FALSE, txs[i].outputs[Len(txs[i].outputs)]>>]

\* C27: rebuild_utxos leaves the map that a replay of all blocks in order
\* from the empty map gives, whatever the map held before: the entries under
\* the hashes a transaction's inputs refer to removed, then its outputs
\* inserted under its own hash with reserved = false, the last output
\* staying.
C27_RebuildIsReplayFromEmpty ==
    [][last'.op = "rebuild_utxos" => utxos' = ReplayedFromEmpty(blocks')]_vars

\* C27 witness: rebuild_utxos ran over a map with a reserved entry and left
\* the second output of a transaction with two outputs
C27_Witness ==
    /\ last.op = "rebuild_utxos"
    /\ mempool # <<>>
    /\ TxHash(TSplit) \in DOMAIN utxos
    /\ utxos[TxHash(TSplit)] = <<FALSE, TSplit.outputs[2]>>

\* C28: add_block never changes utxos, whatever it returns; add_to_mempool
\* and cleanup_mempool never change blocks, target, the keys of utxos or the
\* output of a UTXO: they change reserved flags and the mempool only.
C28_FrameOfChainAndMempoolCalls ==
    [][/\ last'.op = "add_block" => utxos' = utxos
       /\ last'.op \in {"add_to_mempool", "cleanup_mempool"}
             => /\ blocks' = blocks
                /\ target' = target
                /\ DOMAIN utxos' = DOMAIN utxos
                /\ \A h \in DOMAIN utxos : utxos'[h][2] = utxos[h][2]]_vars

\* C28 witness: add_block appended a block to a chain with a UTXO index and
\* left the index as it was, behind the chain
C28_Witness ==
    /\ last = [op |-> "add_block", result |-> "Ok"]
    /\ utxos # <<>>
    /\ utxos # ReplayedFromEmpty(blocks)

\* C29: cleanup_mempool removes the entries of the mempool whose age, now
\* minus the arrival time, is above MAX_MEMPOOL_TRANSACTION_AGE seconds and no
\* others, keeps the rest in their order, and sets reserved = false on every
\* UTXO an input of a removed transaction refers to, leaving the other UTXOs
\* as they are. (A step that leaves the clock alone after which the last
\* call is cleanup_mempool is a call of cleanup_mempool.)
C29_CleanupRemovesExactlyTheOld ==
    [][(last'.op = "cleanup_mempool" /\ now' = now)
          => LET old == {i \in DOMAIN mempool :
                            now - mempool[i][1] > MAX_MEMPOOL_TRANSACTION_AGE}
                 referenced == UNION {InputHashes(mempool[i][2]) : i \in old}
             IN  /\ mempool' = SelectSeq(mempool,
                        LAMBDA e : now - e[1] <= MAX_MEMPOOL_TRANSACTION_AGE)
                 /\ DOMAIN utxos' = DOMAIN utxos
                 /\ \A h \in DOMAIN utxos :
                        utxos'[h] = IF h \in referenced THEN <<FALSE, utxos[h][2]>>
                                    ELSE utxos[h]]_vars

\* C29 witness: cleanup_mempool kept an entry of exactly the maximum age and
\* unreserved the UTXO it spends, which a removed transaction spent too
C29_Witness ==
    /\ last.op = "cleanup_mempool"
    /\ \E i \in DOMAIN mempool :
          /\ now - mempool[i][1] = MAX_MEMPOOL_TRANSACTION_AGE
          /\ \E h \in InputHashes(mempool[i][2]) : h \in DOMAIN utxos /\ ~utxos[h][1]

\* a transaction after the first refers to UTXOs worth less than its outputs
Overspends(block) ==
    \E i \in 2..Len(block.transactions) :
        /\ InputHashes(block.transactions[i]) \subseteq DOMAIN utxos
        /\ ReferencedValue(block.transactions[i].inputs, utxos)
              < SumValues(block.transactions[i].outputs)

\* C30: verify_transactions returns InvalidTransaction, and does not abort,
\* for every block with a transaction after the first whose referenced inputs
\* are worth less than its outputs (and none that is badly signed or spends
\* twice), also when the outputs of the block's transactions after the first
\* exceed their inputs, so that the miner fees would be negative.
C30_OverspendingBlockIsInvalid ==
    \A b \in ProposedBlocks, c \in BOOLEAN :
        (Overspends(b) /\ ~BadlySigned(b) /\ ~DoubleSpends(b))
            => verify_transactions(b, block_height, utxos, c) = "InvalidTransaction"

\* C31: for every predicted height the block reward is INITIAL_REWARD coins
\* divided, with integer division, by 2 to the number of halvings: it never
\* aborts, and it is 0 once 2 to the number of halvings exceeds the initial
\* reward, however many halvings there are.
C31_RewardHalvesToZero ==
    last.op = "calcualte_block_reward"
        => LET initial == INITIAL_REWARD * Pow(10, CoinDigits)
               halvings == last.height \div HALVING_INTERVAL
           IN  /\ last.result = "Ok"
               /\ last.value = IF halvings >= U64Bits THEN 0
                               ELSE initial \div Pow(2, halvings)

\* C32: the coinbase verification succeeds for a block whose first
\* transaction has no inputs, has outputs, and pays the reward of the
\* predicted height plus the fees of the other transactions; it fails for a
\* block without transactions or whose first transaction has no outputs.
C32_CoinbaseVerification ==
    \A b \in ProposedBlocks, c \in BOOLEAN :
        LET result == verify_coinbase_transaction(b, block_height, utxos, c)
        IN  /\ (/\ b.transactions # <<>>
                /\ Head(b.transactions).inputs = <<>>
                /\ Head(b.transactions).outputs # <<>>
                /\ CoinbaseValueEquality(b, block_height, utxos))
                  => result = "Ok"
            /\ (b.transactions = <<>> \/ Head(b.transactions).outputs = <<>>)
                  => result # "Ok"

\* the bodies and targets of the templates a miner is given
TemplateBodies == {<<CB1>>, <<CB1, CB2>>}

\* a solved block with this body and target waits on the mined-block channel
PublishedSolved(body, t) ==
    \E i \in DOMAIN mined_block_channel :
        /\ mined_block_channel[i].transactions = body
        /\ mined_block_channel[i].header.target = t
        /\ matches_target(HeaderHash(mined_block_channel[i].header), t)

\* the last message written to the node is SubmitTemplate
SubmitSent == stream # None /\ stream.type = "SubmitTemplate"

\* the last exchange with the node fetched a template, which is the working
\* copy of the mining thread
TemplateInstalled ==
    /\ stream # None
    /\ stream.type = "FetchTemplate"
    /\ received # None
    /\ received.type = "Template"
    /\ current_template = Some(received.block)

DerivedFrom(block, template) ==
    /\ block.transactions = template.transactions
    /\ block.header.target = template.header.target
    /\ block.header.prev_block_hash = template.header.prev_block_hash
    /\ block.header.merkle_root = template.header.merkle_root

\* C34: once a block of the current template was written to the node in
\* SubmitTemplate, and while no other template was fetched, the mining thread
\* starts no batch on that template and puts no block on the channel, so that
\* no second SubmitTemplate follows for it.
C34_OneSubmitPerTemplate ==
    [][(/\ SubmitSent
        /\ current_template # None
        /\ DerivedFrom(stream.block, current_template[1]))
          => /\ pc'.worker = "batch" => pc.worker = "batch"
             /\ Len(mined_block_channel') <= Len(mined_block_channel)]_vars

\* C35: a block that add_block appends declares a target no larger than the
\* target the chain has when the block arrives; a block that declares a
\* larger one is rejected although its hash is below the target it declares.
C35_AcceptedTargetNotEasier ==
    [][(last'.op = "add_block" /\ Len(blocks') = Len(blocks) + 1)
          => blocks'[Len(blocks')].header.target <= target]_vars

\* the outputs the transactions of one block spend
SpentIn(block) == UNION {InputHashes(block.transactions[k]) : k \in DOMAIN block.transactions}

\* C36: no output is spent in two blocks of the chain: two different
\* accepted blocks have no prev_transaction_output_hash in common among the
\* inputs of their transactions, with or without a rebuild_utxos between the
\* calls that appended them.
C36_NoOutputSpentInTwoBlocks ==
    \A i, j \in DOMAIN blocks :
        i < j => SpentIn(blocks[i]) \cap SpentIn(blocks[j]) = {}

\* C37: in every state the inputs of every mempool transaction refer to keys
\* of utxos and the value they refer to covers the outputs of the
\* transaction, and no add_to_mempool aborts in the fee computation of its
\* sort.
C37_MempoolInputsAreUnspent ==
    /\ \A tx \in MempoolTransactions :
          /\ InputHashes(tx) \subseteq DOMAIN utxos
          /\ ReferencedValue(tx.inputs, utxos) >= SumValues(tx.outputs)
    /\ last.op = "add_to_mempool" => last.result # "panic"

\* C38: no two entries of the mempool hold transactions with the same hash:
\* an add_to_mempool of a transaction that is in the mempool adds no second
\* entry.
C38_MempoolHasNoDuplicates ==
    \A i, j \in DOMAIN mempool :
        i < j => TxHash(mempool[i][2]) # TxHash(mempool[j][2])

\* C39: a transaction is admitted to the mempool only with signatures that
\* verify: every input of every mempool transaction carries a signature that
\* verifies against the pubkey of the UTXO the input refers to.
C39_MempoolSignaturesVerify ==
    \A i \in DOMAIN mempool :
        \A k \in DOMAIN mempool[i][2].inputs :
            LET input == mempool[i][2].inputs[k]
                h == input.prev_transaction_output_hash
            IN  h \in DOMAIN utxos => verify(input.signature, h, utxos[h][2].pubkey)

\* the target of a node that appended the first DIFFICULTY_UPDATE_INTERVAL * k
\* + 1 blocks of the chain one by one with add_block
RECURSIVE LiveTarget(_)
LiveTarget(k) ==
    IF k = 0 THEN MIN_TARGET
    ELSE LET before == LiveTarget(k - 1)
             window == SubSeq(blocks, 1, DIFFICULTY_UPDATE_INTERVAL * k)
         IN  IF try_adjust_target_aborts(window, before) THEN before
             ELSE try_adjust_target(window, before)

\* C40: the target is a function of the blocks alone: a node that saved its
\* chain and loaded it again, any number of times and at any length, holds
\* the target of a node that appended the same blocks with add_block.
C40_TargetDependsOnBlocksAlone ==
    target = IF blocks = <<>> THEN MIN_TARGET
             ELSE LiveTarget((Len(blocks) - 1) \div DIFFICULTY_UPDATE_INTERVAL)

====
